---- MODULE Spec2Model ----
(***************************************************************************)
(* Task Tracker canister (src/src/index.ts): an express application over   *)
(* one StableBTreeMap<string, Task>.  Every HTTP handler is one atomic     *)
(* action; the request body is a JSON object, modelled as a function from  *)
(* the field names it carries to JavaScript values.                        *)
(***************************************************************************)
EXTENDS Naturals, Sequences, FiniteSets

(* ------------------------------ bounds --------------------------------- *)

\* number of identifiers uuidv4() can hand out
MaxTasks == 2
\* last value of the canister clock ic.time()
MaxTime == 1
\* fields a request body carries beyond the five task details
MaxExtraFields == 1

(* ------------------------- JavaScript values --------------------------- *)

Undefined == [t |-> "undefined"]
Str(s) == [t |-> "string", s |-> s]
\* the string uuidv4() returns; u orders the strings as the map orders its keys
Uuid(u) == [t |-> "string", u |-> u]
Num(n) == [t |-> "number", n |-> n]
DateOf(ms) == [t |-> "Date", ms |-> ms]
Null == [t |-> "null"]

\* typeof v
typeof(v) == IF v.t \in {"Date", "null"} THEN "object" ELSE v.t

\* !v  (JavaScript falsiness of the values above)
Falsy(v) ==
    \/ v.t \in {"undefined", "null"}
    \/ v.t = "string" /\ "s" \in DOMAIN v /\ v.s = ""
    \/ v.t = "number" /\ v.n = 0

\* the date strings Date.parse understands, among the ones the model uses
ParsableDates == {"2030-01-01T00:00:00Z", "2023-12-31T23:59:59Z"}

\* isNaN(new Date(v).getTime())
DateIsNaN(v) ==
    CASE v.t = "string" -> ~("s" \in DOMAIN v /\ v.s \in ParsableDates)
      [] v.t = "number" -> FALSE
      [] v.t = "Date" -> FALSE
      [] v.t = "null" -> FALSE
      [] OTHER -> TRUE

\* o.k : a property the object does not carry reads as undefined
Get(o, k) == IF k \in DOMAIN o THEN o[k] ELSE Undefined

\* { ...a, ...b }
Spread(a, b) ==
    [k \in DOMAIN a \cup DOMAIN b |-> IF k \in DOMAIN b THEN b[k] ELSE a[k]]

(* ---------------------------- validation ------------------------------- *)

TitleError == "Title is required and must be a string."
DescriptionError == "Description is required and must be a string."
CategoryError == "Category is required and must be a string."
PriorityError == "Priority must be either low, medium, or high."
DeadlineError == "Deadline must be a valid date."

Priorities == {Str("low"), Str("medium"), Str("high")}

\* errors.push(msg) when the condition holds
PushIf(errors, cond, msg) == IF cond THEN Append(errors, msg) ELSE errors

\* validateTaskInput without its priority check
validateTaskInput_NoPriorityRule(task) ==
    LET e1 == PushIf(<<>>, Falsy(Get(task, "title"))
                          \/ typeof(Get(task, "title")) # "string", TitleError)
        e2 == PushIf(e1, Falsy(Get(task, "description"))
                          \/ typeof(Get(task, "description")) # "string",
                     DescriptionError)
        e3 == PushIf(e2, Falsy(Get(task, "category"))
                          \/ typeof(Get(task, "category")) # "string",
                     CategoryError)
        e5 == PushIf(e3, Falsy(Get(task, "deadline"))
                          \/ DateIsNaN(Get(task, "deadline")), DeadlineError)
    IN  e5

\* validateTaskInput returning at the first violation it finds
validateTaskInput_FailFast(task) ==
    IF Falsy(Get(task, "title")) \/ typeof(Get(task, "title")) # "string"
    THEN <<TitleError>>
    ELSE IF Falsy(Get(task, "description"))
            \/ typeof(Get(task, "description")) # "string"
    THEN <<DescriptionError>>
    ELSE IF Falsy(Get(task, "category"))
            \/ typeof(Get(task, "category")) # "string"
    THEN <<CategoryError>>
    ELSE IF Get(task, "priority") \notin Priorities
    THEN <<PriorityError>>
    ELSE IF Falsy(Get(task, "deadline")) \/ DateIsNaN(Get(task, "deadline"))
    THEN <<DeadlineError>>
    ELSE <<>>

validateTaskInput(task) ==
    LET e1 == PushIf(<<>>, Falsy(Get(task, "title"))
                          \/ typeof(Get(task, "title")) # "string", TitleError)
        e2 == PushIf(e1, Falsy(Get(task, "description"))
                          \/ typeof(Get(task, "description")) # "string",
                     DescriptionError)
        e3 == PushIf(e2, Falsy(Get(task, "category"))
                          \/ typeof(Get(task, "category")) # "string",
                     CategoryError)
        e4 == PushIf(e3, Get(task, "priority") \notin Priorities, PriorityError)
        e5 == PushIf(e4, Falsy(Get(task, "deadline"))
                          \/ DateIsNaN(Get(task, "deadline")), DeadlineError)
    IN  e5

(* ------------------------------- state --------------------------------- *)

VARIABLES
    tasksStorage,   \* the StableBTreeMap: a function from its keys to Tasks
    issued,         \* identifiers uuidv4() has returned so far
    time,           \* ic.time(), in milliseconds
    res,            \* the response to the last request
    checked,        \* a call of validateTaskInput: its argument and result
    inflight        \* requests that arrived together, and where each one is

vars == <<tasksStorage, issued, time, res, checked, inflight>>

\* no requests in flight
Idle == [base |-> << >>, order |-> << >>, reqs |-> << >>]

UUIDs == 1..MaxTasks

getCurrentDate == DateOf(time)

\* tasksStorage.get(taskId) unwrapped: null when there is no such key
getTaskById(taskId) ==
    IF taskId \in DOMAIN tasksStorage THEN tasksStorage[taskId] ELSE Null

\* tasksStorage.insert(key, value)
insert(key, value) ==
    [k \in DOMAIN tasksStorage \cup {key} |->
        IF k = key THEN value ELSE tasksStorage[k]]

\* tasksStorage.remove(key), the map it leaves
remove(key) == [k \in DOMAIN tasksStorage \ {key} |-> tasksStorage[k]]

Init ==
    /\ tasksStorage = << >>
    /\ issued = {}
    /\ time = 0
    /\ res = [op |-> "none", id |-> 0, code |-> 0, body |-> << >>]
    /\ checked = [task |-> << >>, done |-> FALSE, errors |-> << >>]
    /\ inflight = Idle

(* --------------------------- request bodies ---------------------------- *)

\* the JSON object with the given fields; a field given as Undefined is not
\* in the object
Body(title, description, category, priority, deadline, extra) ==
    LET details == [title |-> title, description |-> description,
                    category |-> category, priority |-> priority,
                    deadline |-> deadline]
        all == Spread(details, extra)
    IN  [k \in {f \in DOMAIN all : all[f] # Undefined} |-> all[k]]

ExtraNames == {"id", "status", "createdAt", "updatedAt"}

\* what a client may send in a field the service assigns
ExtraValues(k) ==
    CASE k = "id" -> {Uuid(u) : u \in 1..MaxTasks}
      [] k = "status" -> {Str("pending"), Str("completed"), Str("archived")}
      [] k = "createdAt" -> {Str("2023-12-31T23:59:59Z")}
      [] k = "updatedAt" -> {Str("2023-12-31T23:59:59Z")}

ExtraObjects ==
    UNION { {e \in [ks -> UNION {ExtraValues(k) : k \in ks}] :
                \A k \in ks : e[k] \in ExtraValues(k)} :
              ks \in {s \in SUBSET ExtraNames : Cardinality(s) <= MaxExtraFields} }

\* the task of the README's create example
Title == Str("Complete IC project")
Description == Str("Finalize the Internet Computer project")
Category == Str("work")
Priority == Str("high")
Deadline == Str("2023-12-31T23:59:59Z")

\* complete bodies: the five details, and up to MaxExtraFields other fields
CompleteBodies ==
    { Body(Title, Description, Category, Priority, Deadline, e) :
        e \in ExtraObjects }

\* the body of the README's update example, and one with a bad priority
PartialBodies ==
    { Body(Undefined, Str("Updated task description"), Undefined, p,
           Undefined, << >>) : p \in {Str("medium"), Str("urgent")} }

\* bodies that break one rule each, three rules, and all five
InvalidBodies ==
    { Body(Str(""), Description, Category, Priority, Deadline, << >>),
      Body(Title, Num(7), Category, Priority, Deadline, << >>),
      Body(Title, Description, Null, Priority, Deadline, << >>),
      Body(Title, Description, Category, Str("urgent"), Deadline, << >>),
      Body(Title, Description, Category, Priority, Str("someday"), << >>),
      Body(Undefined, Description, Category, Str("urgent"), Str("someday"),
           << >>),
      << >> }

AllBodies == CompleteBodies \cup PartialBodies \cup InvalidBodies

\* a client knows the identifiers the service has handed out, and no others
Bodies == {b \in AllBodies : "id" \in DOMAIN b => b.id.u \in issued}

\* the ids a request path may carry
PathIds == UUIDs

(* ------------------------------ handlers ------------------------------- *)

NotFound(op, taskId) ==
    [op |-> op, id |-> taskId, code |-> 404, body |-> "not found"]

\* app.post("/tasks") without the return after the 400 answer
CreateTask_NoReturn(body) ==
    \E u \in UUIDs \ issued :
        LET errors == validateTaskInput(body)
            task == Spread([id |-> Uuid(u), createdAt |-> getCurrentDate,
                            status |-> Str("pending"), updatedAt |-> Null],
                           body)
        IN  /\ tasksStorage' = insert(task.id.u, task)
            /\ issued' = issued \cup {u}
            /\ res' = IF Len(errors) > 0
                      THEN [op |-> "create", id |-> 0, code |-> 400,
                            body |-> errors]
                      ELSE [op |-> "create", id |-> u, code |-> 201,
                            body |-> task]
            /\ UNCHANGED <<time, checked, inflight>>

\* app.post("/tasks") storing the task under the uuid it drew, not task.id
CreateTask_KeyedByUuid(body) ==
    LET errors == validateTaskInput(body) IN
    IF Len(errors) > 0
    THEN /\ res' = [op |-> "create", id |-> 0, code |-> 400, body |-> errors]
         /\ UNCHANGED <<tasksStorage, issued, time, checked, inflight>>
    ELSE \E u \in UUIDs \ issued :
            LET task == Spread([id |-> Uuid(u), createdAt |-> getCurrentDate,
                                status |-> Str("pending"), updatedAt |-> Null],
                               body)
            IN  /\ tasksStorage' = insert(u, task)
                /\ issued' = issued \cup {u}
                /\ res' = [op |-> "create", id |-> u, code |-> 201, body |-> task]
                /\ UNCHANGED <<time, checked, inflight>>

\* app.post("/tasks")
CreateTask(body) ==
    LET errors == validateTaskInput(body) IN
    IF Len(errors) > 0
    THEN /\ res' = [op |-> "create", id |-> 0, code |-> 400, body |-> errors]
         /\ UNCHANGED <<tasksStorage, issued, time, checked, inflight>>
    ELSE \E u \in UUIDs \ issued :
            LET task == Spread([id |-> Uuid(u), createdAt |-> getCurrentDate,
                                status |-> Str("pending"), updatedAt |-> Null],
                               body)
            IN  /\ tasksStorage' = insert(task.id.u, task)
                /\ issued' = issued \cup {u}
                /\ res' = [op |-> "create", id |-> u, code |-> 201, body |-> task]
                /\ UNCHANGED <<time, checked, inflight>>

\* tasksStorage.values() handing the records out from the last key down
RECURSIVE valuesFrom_Descending(_)
valuesFrom_Descending(keys) ==
    IF keys = {} THEN <<>>
    ELSE LET k == CHOOSE x \in keys : \A y \in keys : x >= y
         IN  <<tasksStorage[k]>> \o valuesFrom_Descending(keys \ {k})

\* app.get("/tasks")
RECURSIVE valuesFrom(_)
valuesFrom(keys) ==
    IF keys = {} THEN <<>>
    ELSE LET k == CHOOSE x \in keys : \A y \in keys : x <= y
         IN  <<tasksStorage[k]>> \o valuesFrom(keys \ {k})

values == valuesFrom(DOMAIN tasksStorage)

GetTasks ==
    /\ res' = [op |-> "list", id |-> 0, code |-> 200, body |-> values]
    /\ UNCHANGED <<tasksStorage, issued, time, checked, inflight>>

\* app.get("/tasks/:id")
GetTask(taskId) ==
    LET task == getTaskById(taskId) IN
    /\ res' = IF task = Null THEN NotFound("get", taskId)
              ELSE [op |-> "get", id |-> taskId, code |-> 200, body |-> task]
    /\ UNCHANGED <<tasksStorage, issued, time, checked, inflight>>

\* app.put("/tasks/:id") validating the body before it looks the task up
UpdateTask_ValidatesFirst(taskId, body) ==
    LET task == getTaskById(taskId)
        errors == validateTaskInput(body)
        updatedTask == Spread(Spread(task, body), [updatedAt |-> getCurrentDate])
    IN  IF Len(errors) > 0
        THEN /\ res' = [op |-> "update", id |-> taskId, code |-> 400,
                        body |-> errors]
             /\ UNCHANGED <<tasksStorage, issued, time, checked, inflight>>
        ELSE IF task = Null
        THEN /\ res' = NotFound("update", taskId)
             /\ UNCHANGED <<tasksStorage, issued, time, checked, inflight>>
        ELSE /\ tasksStorage' = insert(task.id.u, updatedTask)
             /\ res' = [op |-> "update", id |-> taskId, code |-> 200,
                        body |-> updatedTask]
             /\ UNCHANGED <<issued, time, checked, inflight>>

\* app.put("/tasks/:id")
UpdateTask(taskId, body) ==
    LET task == getTaskById(taskId)
        errors == validateTaskInput(body)
        updatedTask == Spread(Spread(task, body), [updatedAt |-> getCurrentDate])
    IN  IF task = Null
        THEN /\ res' = NotFound("update", taskId)
             /\ UNCHANGED <<tasksStorage, issued, time, checked, inflight>>
        ELSE IF Len(errors) > 0
        THEN /\ res' = [op |-> "update", id |-> taskId, code |-> 400,
                        body |-> errors]
             /\ UNCHANGED <<tasksStorage, issued, time, checked, inflight>>
        ELSE /\ tasksStorage' = insert(task.id.u, updatedTask)
             /\ res' = [op |-> "update", id |-> taskId, code |-> 200,
                        body |-> updatedTask]
             /\ UNCHANGED <<issued, time, checked, inflight>>

\* app.delete("/tasks/:id")
DeleteTask(taskId) ==
    IF taskId \notin DOMAIN tasksStorage
    THEN /\ res' = NotFound("delete", taskId)
         /\ UNCHANGED <<tasksStorage, issued, time, checked, inflight>>
    ELSE /\ tasksStorage' = remove(taskId)
         /\ res' = [op |-> "delete", id |-> taskId, code |-> 200,
                    body |-> tasksStorage[taskId]]
         /\ UNCHANGED <<issued, time, checked, inflight>>

\* app.put("/tasks/:id/complete")
CompleteTask(taskId) ==
    LET task == getTaskById(taskId)
        completed == [task EXCEPT !.status = Str("completed"),
                                  !.updatedAt = getCurrentDate]
    IN  IF task = Null
        THEN /\ res' = NotFound("complete", taskId)
             /\ UNCHANGED <<tasksStorage, issued, time, checked, inflight>>
        ELSE /\ tasksStorage' = insert(task.id.u, completed)
             /\ res' = [op |-> "complete", id |-> taskId, code |-> 200,
                        body |-> completed]
             /\ UNCHANGED <<issued, time, checked, inflight>>

\* the canister clock moves on between two requests
Tick ==
    /\ time < MaxTime
    /\ time' = time + 1
    /\ UNCHANGED <<tasksStorage, issued, res, checked, inflight>>

Next ==
    \/ \E body \in Bodies : CreateTask(body)
    \/ GetTasks
    \/ \E taskId \in PathIds : GetTask(taskId)
    \/ \E taskId \in PathIds : \E body \in Bodies : UpdateTask(taskId, body)
    \/ \E taskId \in PathIds : DeleteTask(taskId)
    \/ \E taskId \in PathIds : CompleteTask(taskId)
    \/ Tick

Spec == Init /\ [][Next]_vars

(* ------------------- validateTaskInput on its own ---------------------- *)

\* the values tried in each of the five fields: missing, null, of the wrong
\* type, empty, and well-formed ones
TextInputs == {Undefined, Null, Num(7), Str(""), Str("work")}
PriorityInputs ==
    {Undefined, Str(""), Str("urgent"), Str("HIGH"), Num(7)} \cup Priorities
DeadlineInputs ==
    {Undefined, Null, Str(""), Str("someday"), Num(0), Num(7), Deadline,
     Str("2030-01-01T00:00:00Z")}

ValidationInputs ==
    { Body(t, d, c, p, dl, << >>) :
        t \in TextInputs, d \in TextInputs, c \in TextInputs,
        p \in PriorityInputs, dl \in DeadlineInputs }

InitValidate ==
    /\ tasksStorage = << >>
    /\ issued = {}
    /\ time = 0
    /\ res = [op |-> "none", id |-> 0, code |-> 0, body |-> << >>]
    /\ \E task \in ValidationInputs :
          checked = [task |-> task, done |-> FALSE, errors |-> << >>]
    /\ inflight = Idle

Validate ==
    /\ ~checked.done
    /\ checked' = [checked EXCEPT !.done = TRUE,
                                  !.errors = validateTaskInput(checked.task)]
    /\ UNCHANGED <<tasksStorage, issued, time, res, inflight>>

NextValidate == Validate

SpecValidate == InitValidate /\ [][NextValidate]_vars

(* ------------------- requests that arrive together --------------------- *)

\* the task the store is filled with before requests arrive together
SeedBody == Body(Title, Description, Category, Priority, Deadline, << >>)

\* the bodies of the updates that arrive together: those that pass validation
ConcurrentBodies == {b \in Bodies : Len(validateTaskInput(b)) = 0}

\* a request waiting for its handler; task is the handler's local variable
Request(op, taskId, body) ==
    [op |-> op, id |-> taskId, body |-> body, pc |-> "queued",
     task |-> Null, at |-> 0]

Requests(taskId) ==
    {Request("update", taskId, b) : b \in ConcurrentBodies}
        \cup {Request("complete", taskId, << >>)}

\* a handler that yields between its read and its write
HandlerRunning_Yields == FALSE

\* a handler has read the store and not yet answered: the handlers have no
\* await, so the call that started one runs it to its return
HandlerRunning ==
    \E i \in DOMAIN inflight.reqs : inflight.reqs[i].pc = "read"

\* app.post("/tasks") while nothing is in flight
Seed ==
    /\ inflight = Idle
    /\ CreateTask(SeedBody)

\* an update and a complete, or two updates, arrive for one stored id
Arrive ==
    /\ inflight = Idle
    /\ \E taskId \in DOMAIN tasksStorage :
          \E r1 \in Requests(taskId), r2 \in Requests(taskId) :
             /\ "update" \in {r1.op, r2.op}
             /\ inflight' = [base |-> tasksStorage, order |-> << >>,
                             reqs |-> <<r1, r2>>]
    /\ UNCHANGED <<tasksStorage, issued, time, res, checked>>

\* the handler of request i starts: const task = getTaskById(req.params.id)
Begin(i) ==
    /\ i \in DOMAIN inflight.reqs
    /\ inflight.reqs[i].pc = "queued"
    /\ ~HandlerRunning
    /\ inflight' = [inflight EXCEPT
                       !.reqs[i].pc = "read",
                       !.reqs[i].task = getTaskById(inflight.reqs[i].id),
                       !.reqs[i].at = time,
                       !.order = Append(@, i)]
    /\ UNCHANGED <<tasksStorage, issued, time, res, checked>>

\* the rest of the handler of request i, from the task it read
Finish(i) ==
    /\ i \in DOMAIN inflight.reqs
    /\ inflight.reqs[i].pc = "read"
    /\ LET r == inflight.reqs[i]
           task == r.task
           errors == validateTaskInput(r.body)
           updatedTask ==
               IF r.op = "update"
               THEN Spread(Spread(task, r.body), [updatedAt |-> getCurrentDate])
               ELSE [task EXCEPT !.status = Str("completed"),
                                 !.updatedAt = getCurrentDate]
       IN  IF task = Null
           THEN /\ res' = NotFound(r.op, r.id)
                /\ UNCHANGED tasksStorage
           ELSE IF r.op = "update" /\ Len(errors) > 0
           THEN /\ res' = [op |-> "update", id |-> r.id, code |-> 400,
                           body |-> errors]
                /\ UNCHANGED tasksStorage
           ELSE /\ tasksStorage' = insert(task.id.u, updatedTask)
                /\ res' = [op |-> r.op, id |-> r.id, code |-> 200,
                           body |-> updatedTask]
    /\ inflight' = [inflight EXCEPT !.reqs[i].pc = "done"]
    /\ UNCHANGED <<issued, time, checked>>

\* the canister clock moves on between two calls
TickBetween ==
    /\ ~HandlerRunning
    /\ Tick

NextConcurrent ==
    \/ Seed
    \/ Arrive
    \/ \E i \in {1, 2} : Begin(i)
    \/ \E i \in {1, 2} : Finish(i)
    \/ TickBetween

SpecConcurrent == Init /\ [][NextConcurrent]_vars

\* the store after the handler of request r has run alone on store, at r.at
RunAlone(store, r) ==
    LET task == IF r.id \in DOMAIN store THEN store[r.id] ELSE Null
        updatedTask ==
            IF r.op = "update"
            THEN Spread(Spread(task, r.body), [updatedAt |-> DateOf(r.at)])
            ELSE [task EXCEPT !.status = Str("completed"),
                              !.updatedAt = DateOf(r.at)]
    IN  IF task = Null THEN store
        ELSE IF r.op = "update" /\ Len(validateTaskInput(r.body)) > 0
        THEN store
        ELSE [k \in DOMAIN store \cup {task.id.u} |->
                 IF k = task.id.u THEN updatedTask ELSE store[k]]

\* the store after the requests in flight have run one after the other
RunInOrder(first, second) ==
    RunAlone(RunAlone(inflight.base, inflight.reqs[first]),
             inflight.reqs[second])

(* ------------------------------ claims --------------------------------- *)

Details == {"title", "description", "category", "priority", "deadline"}
Fields == Details \cup {"id", "status", "createdAt", "updatedAt"}

IsNonEmptyString(v) == v.t = "string" /\ "s" \in DOMAIN v /\ v.s # ""
ParsesAsTimestamp(v) == ~Falsy(v) /\ ~DateIsNaN(v)

\* the five validation rules, as the specification words them
SatisfiesRules(task) ==
    /\ IsNonEmptyString(Get(task, "title"))
    /\ IsNonEmptyString(Get(task, "description"))
    /\ IsNonEmptyString(Get(task, "category"))
    /\ Get(task, "priority") \in {Str("low"), Str("medium"), Str("high")}
    /\ ParsesAsTimestamp(Get(task, "deadline"))

\* a step taken by the update handler, by the complete handler
IsUpdate == \E taskId \in PathIds : \E body \in Bodies : UpdateTask(taskId, body)
IsComplete == \E taskId \in PathIds : CompleteTask(taskId)

\* C1: an update of a stored task whose body, laid over the stored record,
\* satisfies the five rules succeeds (200, no validation error) and the
\* record stored under the id carries the body's fields over the old ones.
C1_UpdateValidatesMergedRecord ==
    [][\A taskId \in DOMAIN tasksStorage : \A body \in Bodies :
          (UpdateTask(taskId, body)
              /\ SatisfiesRules(Spread(tasksStorage[taskId], body)))
          => /\ res'.code = 200
             /\ taskId \in DOMAIN tasksStorage'
             /\ \A f \in Details :
                   tasksStorage'[taskId][f] =
                       Spread(tasksStorage[taskId], body)[f]]_vars

\* C2: a create that passes validation returns and stores a task with
\* status pending, updatedAt absent and createdAt the current time, whatever
\* else the body carries.
C2_CreateForcesServiceFields ==
    [][\A body \in Bodies :
          (CreateTask(body) /\ SatisfiesRules(body))
          => /\ res'.code = 201
             /\ res'.body.status = Str("pending")
             /\ res'.body.updatedAt = Null
             /\ res'.body.createdAt = getCurrentDate
             /\ \E k \in DOMAIN tasksStorage' : tasksStorage'[k] = res'.body]_vars

\* C3: a successful create adds exactly one key, one the store did not hold,
\* and leaves every record already stored as it was.
C3_CreateAddsOneFreshKey ==
    [][\A body \in Bodies :
          (CreateTask(body) /\ res'.code = 201)
          => /\ \E k \in DOMAIN tasksStorage' \ DOMAIN tasksStorage :
                   DOMAIN tasksStorage' = DOMAIN tasksStorage \cup {k}
             /\ \A k \in DOMAIN tasksStorage :
                   tasksStorage'[k] = tasksStorage[k]]_vars

\* C4: no update and no complete changes the id or the createdAt of a record
\* that stays stored.
C4_IdAndCreatedAtAreImmutable ==
    [][(IsUpdate \/ IsComplete)
          => \A k \in DOMAIN tasksStorage \cap DOMAIN tasksStorage' :
                /\ tasksStorage'[k].id = tasksStorage[k].id
                /\ tasksStorage'[k].createdAt = tasksStorage[k].createdAt]_vars

\* C5: a record that is completed is not pending after any later update or
\* complete that leaves a record under its id (a create that writes over a
\* stored record is the case of C3).
C5_CompletedStaysCompleted ==
    [][(IsUpdate \/ IsComplete)
          => \A k \in DOMAIN tasksStorage \cap DOMAIN tasksStorage' :
                tasksStorage[k].status = Str("completed")
                => tasksStorage'[k].status # Str("pending")]_vars

\* C6: after a successful update the record under the id keeps every field
\* the body does not carry, has updatedAt set to the current time, has the
\* body's value in every other field the body carries (id and createdAt
\* aside), and no record under another id is added, removed or changed.
C6_UpdateMergeLaw ==
    [][\A taskId \in DOMAIN tasksStorage : \A body \in Bodies :
          (UpdateTask(taskId, body) /\ res'.code = 200)
          => /\ DOMAIN tasksStorage' = DOMAIN tasksStorage
             /\ \A k \in DOMAIN tasksStorage \ {taskId} :
                   tasksStorage'[k] = tasksStorage[k]
             /\ tasksStorage'[taskId].updatedAt = getCurrentDate
             /\ \A f \in Fields \ (DOMAIN body \cup {"updatedAt"}) :
                   tasksStorage'[taskId][f] = tasksStorage[taskId][f]
             /\ \A f \in DOMAIN body \ {"id", "createdAt", "updatedAt"} :
                   tasksStorage'[taskId][f] = body[f]]_vars

\* the bodies that break at least one of the five rules
RuleBreakingBodies == {body \in AllBodies : ~SatisfiesRules(body)}

\* a stored record laid under a body satisfies the rules only if the body
\* does: what breaks a rule in the merged record breaks it in the body
MergedBreaksOnlyWithBody ==
    \A k \in DOMAIN tasksStorage : \A body \in Bodies :
        ~SatisfiesRules(Spread(tasksStorage[k], body))
        => body \in RuleBreakingBodies

\* a step that answers 400 with a list of violations and writes nothing
RefusedUnwritten ==
    /\ res'.code = 400
    /\ Len(res'.body) > 0
    /\ tasksStorage' = tasksStorage

\* C7: a create whose body breaks a rule, and an update of a stored task
\* whose body (hence also: whose merged record) breaks a rule, answer 400
\* with the list of violations and leave the store exactly as it was.
C7_FailedValidationWritesNothing ==
    /\ []MergedBreaksOnlyWithBody
    /\ [][/\ \/ res'.op # "create"
              \/ RefusedUnwritten
              \/ ~\E body \in RuleBreakingBodies : CreateTask(body)
           /\ \/ res'.op # "update"
              \/ res'.id \notin DOMAIN tasksStorage
              \/ RefusedUnwritten
              \/ ~\E body \in RuleBreakingBodies :
                     UpdateTask(res'.id, body)]_vars

\* an update of a stored task was refused with a validation error
C7_Witness ==
    /\ res.op = "update"
    /\ res.code = 400
    /\ res.id \in DOMAIN tasksStorage
    /\ Len(res.body) > 0

\* C8: get, update, complete and delete of an id with no stored record
\* answer 404 and leave the store as it was; update does so whether or not
\* its body passes validation.
C8_MissingIdIsNotFound ==
    [][\A taskId \in PathIds \ DOMAIN tasksStorage :
          /\ GetTask(taskId)
                => res'.code = 404 /\ tasksStorage' = tasksStorage
          /\ \A body \in Bodies :
                UpdateTask(taskId, body)
                => res'.code = 404 /\ tasksStorage' = tasksStorage
          /\ CompleteTask(taskId)
                => res'.code = 404 /\ tasksStorage' = tasksStorage
          /\ DeleteTask(taskId)
                => res'.code = 404 /\ tasksStorage' = tasksStorage]_vars

\* an update of an id that is not stored was answered 404, with tasks stored
C8_Witness ==
    /\ res.op = "update"
    /\ res.code = 404
    /\ res.id \notin DOMAIN tasksStorage
    /\ DOMAIN tasksStorage # {}

\* C9: every stored record satisfies the five validation rules.
C9_StoredTasksAreValid ==
    \A k \in DOMAIN tasksStorage : SatisfiesRules(tasksStorage[k])

\* an update has just stored a record whose status came from its body
C9_Witness ==
    /\ res.op = "update"
    /\ res.code = 200
    /\ \E k \in DOMAIN tasksStorage :
          /\ tasksStorage[k] = res.body
          /\ tasksStorage[k].status = Str("archived")

RuleOrder ==
    <<TitleError, DescriptionError, CategoryError, PriorityError, DeadlineError>>

\* whether the input breaks the i-th rule
Violates(task, i) ==
    CASE i = 1 -> ~IsNonEmptyString(Get(task, "title"))
      [] i = 2 -> ~IsNonEmptyString(Get(task, "description"))
      [] i = 3 -> ~IsNonEmptyString(Get(task, "category"))
      [] i = 4 -> Get(task, "priority") \notin
                      {Str("low"), Str("medium"), Str("high")}
      [] i = 5 -> ~ParsesAsTimestamp(Get(task, "deadline"))

\* C10: the list validateTaskInput returns holds one entry for each rule the
\* input breaks, none for a rule it satisfies, in rule order.
C10_ValidationCompleteAndOrdered ==
    checked.done =>
        /\ \A i \in 1..5 :
              Violates(checked.task, i)
              <=> \E j \in DOMAIN checked.errors : checked.errors[j] = RuleOrder[i]
        /\ \A j \in DOMAIN checked.errors :
              \E i \in 1..5 : checked.errors[j] = RuleOrder[i]
        /\ \A j1, j2 \in DOMAIN checked.errors :
              j1 < j2 => \E i1, i2 \in 1..5 :
                            /\ i1 < i2
                            /\ checked.errors[j1] = RuleOrder[i1]
                            /\ checked.errors[j2] = RuleOrder[i2]

\* the example: no title, priority "urgent", a deadline that does not parse
C10_Witness ==
    /\ checked.done
    /\ "title" \notin DOMAIN checked.task
    /\ Get(checked.task, "priority") = Str("urgent")
    /\ Get(checked.task, "deadline") = Str("someday")
    /\ checked.errors = <<TitleError, PriorityError, DeadlineError>>

\* C11: a complete of a stored task answers 200 whatever its status; the
\* record under the id then has status completed and updatedAt the current
\* time, its other fields are as they were, and so is every other record
\* (so a second complete succeeds likewise and refreshes updatedAt).
C11_CompleteSetsStatusOnly ==
    [][\A taskId \in DOMAIN tasksStorage :
          CompleteTask(taskId)
          => /\ res'.code = 200
             /\ DOMAIN tasksStorage' = DOMAIN tasksStorage
             /\ tasksStorage'[taskId].status = Str("completed")
             /\ tasksStorage'[taskId].updatedAt = getCurrentDate
             /\ \A f \in Fields \ {"status", "updatedAt"} :
                   tasksStorage'[taskId][f] = tasksStorage[taskId][f]
             /\ \A k \in DOMAIN tasksStorage \ {taskId} :
                   tasksStorage'[k] = tasksStorage[k]]_vars

\* C12: the record a create stores has no updatedAt; the record under the id
\* of a successful update or complete has one; and a stored record that has
\* one keeps having one for as long as a record is stored under its id.
C12_UpdatedAtAbsentThenPresent ==
    [][/\ (res'.op = "create" /\ res'.code = 201)
          => res'.body.updatedAt = Null
       /\ (res'.op \in {"update", "complete"} /\ res'.code = 200
              /\ res'.id \in DOMAIN tasksStorage')
          => tasksStorage'[res'.id].updatedAt # Null
       /\ \A k \in DOMAIN tasksStorage \cap DOMAIN tasksStorage' :
             tasksStorage[k].updatedAt # Null
             => tasksStorage'[k].updatedAt # Null]_vars

\* C13: a get of the id of the task a create has just returned, with no
\* request in between, answers 200 with a record equal to the returned one.
C13_CreateThenGetRoundTrip ==
    [][(res.op = "create" /\ res.code = 201)
          => \A taskId \in PathIds :
                (taskId = res.body.id.u /\ GetTask(taskId))
                => /\ res'.code = 200
                   /\ res'.body = res.body]_vars

\* a get has returned a task as it was created, from a body that carried
\* its own createdAt
C13_Witness ==
    /\ res.op = "get"
    /\ res.code = 200
    /\ res.body.updatedAt = Null
    /\ res.body.createdAt = Str("2023-12-31T23:59:59Z")
    /\ tasksStorage[res.id] = res.body

\* C14: a delete of a stored task answers 200 with the record stored under
\* the id, removes that key and nothing else; right after it a get and a
\* second delete of the id answer 404, and only a create puts a record under
\* the id again.
C14_DeleteRemovesUntilCreate ==
    [][/\ \A taskId \in DOMAIN tasksStorage :
             DeleteTask(taskId)
             => /\ res'.code = 200
                /\ res'.body = tasksStorage[taskId]
                /\ DOMAIN tasksStorage' = DOMAIN tasksStorage \ {taskId}
                /\ \A k \in DOMAIN tasksStorage' :
                      tasksStorage'[k] = tasksStorage[k]
       /\ (res.op = "delete" /\ res.code = 200)
          => /\ GetTask(res.id) => res'.code = 404
             /\ DeleteTask(res.id) => res'.code = 404
             /\ res.id \in DOMAIN tasksStorage'
                => res'.op = "create" /\ res'.code = 201]_vars

\* the stored keys that come before k
KeysBelow(k) == {j \in DOMAIN tasksStorage : j < k}

\* C15: list and get leave the store as it is; list answers 200 with one
\* record per stored key, in ascending order of the keys, hence with the
\* empty sequence when nothing is stored.
C15_ReadsAreReadOnlyAndOrdered ==
    [][/\ GetTasks
          => /\ tasksStorage' = tasksStorage
             /\ res'.code = 200
             /\ Len(res'.body) = Cardinality(DOMAIN tasksStorage)
             /\ \A k \in DOMAIN tasksStorage :
                   res'.body[Cardinality(KeysBelow(k)) + 1] = tasksStorage[k]
       /\ \A taskId \in PathIds :
             GetTask(taskId) => tasksStorage' = tasksStorage]_vars

\* a list has returned two different records
C15_Witness ==
    /\ res.op = "list"
    /\ res.code = 200
    /\ Len(res.body) = 2
    /\ res.body[1] # res.body[2]
    /\ DOMAIN tasksStorage = {1, 2}

\* C16: the status of every stored record is pending or completed.
C16_StatusIsPendingOrCompleted ==
    \A k \in DOMAIN tasksStorage :
        tasksStorage[k].status \in {Str("pending"), Str("completed")}

\* C17: every record is stored under its own id.
C17_KeyIsRecordId ==
    \A k \in DOMAIN tasksStorage : tasksStorage[k].id = Uuid(k)

AllDone ==
    /\ inflight # Idle
    /\ \A i \in DOMAIN inflight.reqs : inflight.reqs[i].pc = "done"

\* C18: at most one handler is between its read and its write, and once an
\* update and a complete, or two updates, that arrived together for one stored
\* id have both answered, the store is what running them one after the other,
\* in the order they started, would have left
C18_ConcurrentRequestsSerialize ==
    /\ Cardinality({i \in DOMAIN inflight.reqs :
                       inflight.reqs[i].pc = "read"}) <= 1
    /\ AllDone
       => /\ tasksStorage = RunInOrder(inflight.order[1], inflight.order[2])
          /\ tasksStorage \in {RunInOrder(1, 2), RunInOrder(2, 1)}

\* an update carrying createdAt ran before a complete for the same id, and the
\* record shows both writes
C18_Witness ==
    /\ AllDone
    /\ inflight.order = <<1, 2>>
    /\ inflight.reqs[1].op = "update"
    /\ "createdAt" \in DOMAIN inflight.reqs[1].body
    /\ inflight.reqs[2].op = "complete"
    /\ tasksStorage # inflight.base
    /\ LET taskId == inflight.reqs[1].id
       IN  /\ tasksStorage[taskId].status = Str("completed")
           /\ tasksStorage[taskId].createdAt = inflight.reqs[1].body.createdAt
           /\ inflight.base[taskId].status = Str("pending")

====
